---- MODULE Spec2Model ----
(***************************************************************************)
(* FibLang (fib.cc): the tree-walking evaluator, its values, its           *)
(* environment chain and the host's main(), as a small-step machine.       *)
(*                                                                         *)
(* The recursion of eval() is made explicit: `ctrl` is what the machine is *)
(* doing (evaluating a node, returning a value, unwinding an exception),   *)
(* `stack` holds one frame per suspended activation of eval(), and `envs`  *)
(* is the heap of Environment objects (index = identity, 0 = nullptr).     *)
(***************************************************************************)
EXTENDS Integers, Sequences, FiniteSets, TLC

(***************************************************************************)
(* Bounds of the model                                                     *)
(***************************************************************************)
\* width of `long` in the model (the program's is 64)
IntBits == 8
\* largest argument k of the programs `fib(k)`
MaxFibArg == 10

MaxInt == 2 ^ (IntBits - 1) - 1
MinInt == -(2 ^ (IntBits - 1))
InRange(x) == MinInt <= x /\ x <= MaxInt
\* two's-complement wrap of a mathematical integer into `long`
Wrap(x) == ((x - MinInt) % (2 ^ IntBits)) + MinInt
\* cap on the lines one run writes: only a run whose for-loop counter
\* overflowed writes more lines than there are values of `long`
MaxLines == 2 ^ IntBits

(***************************************************************************)
(* AST nodes (peg::Ast after AstOptimizer): tag, token text, children.     *)
(* `digits` is the token text of a Number as its characters.  A node is    *)
(* referred to by its path from the root.                                  *)
(***************************************************************************)
Node(tag, nodes) == [tag |-> tag, token |-> "", digits |-> <<>>, nodes |-> nodes]
Token(tag, text) == [tag |-> tag, token |-> text, digits |-> <<>>, nodes |-> <<>>]

RECURSIVE Digits(_)
Digits(n) == IF n < 10 THEN <<n>> ELSE Append(Digits(n \div 10), n % 10)

Ident(s) == Token("Identifier", s)
Num(n) == [tag |-> "Number", token |-> ToString(n), digits |-> Digits(n), nodes |-> <<>>]
Op(s) == Token("InfixOperator", s)
Lt == Token("ConditionOperator", "<")

RECURSIVE NodeAt(_, _)
NodeAt(n, p) == IF p = <<>> THEN n ELSE NodeAt(n.nodes[Head(p)], Tail(p))

(***************************************************************************)
(* Value                                                                   *)
(***************************************************************************)
NoPath == <<0>>
Nil == [type |-> "Nil", b |-> FALSE, l |-> 0, param |-> "", body |-> NoPath, builtin |-> FALSE]
BoolV(b) == [Nil EXCEPT !.type = "Bool", !.b = b]
LongV(l) == [Nil EXCEPT !.type = "Long", !.l = l]
\* a user function: the lambda of DEFINITION captures `body` only
FunctionV(param, body) == [Nil EXCEPT !.type = "Function", !.param = param, !.body = body]
\* the lambda of make_with_builtins
PutsV == [Nil EXCEPT !.type = "Function", !.param = "arg", !.builtin = TRUE]

\* exceptions: std::runtime_error, std::logic_error; `Value` is the type
\* the handler of CALL names
NoErr == [class |-> "none", what |-> "", name |-> "", val |-> Nil]
TypeError == [NoErr EXCEPT !.class = "runtime_error", !.what = "type error."]
UndefinedVariable(s) ==
    [NoErr EXCEPT !.class = "runtime_error",
                  !.what = "undefined variable '" \o s \o "'...", !.name = s]
InternalError ==
    [NoErr EXCEPT !.class = "logic_error", !.what = "invalid internal condition."]

\* the outcome of an operation that returns or throws
Ok(v) == [ok |-> TRUE, val |-> v, err |-> NoErr]
Thrown(e) == [ok |-> FALSE, val |-> Nil, err |-> e]

to_bool(v) ==
    CASE v.type = "Bool" -> Ok(BoolV(v.b))
      [] v.type = "Long" -> Ok(BoolV(v.l # 0))
      [] OTHER -> Thrown(TypeError)

to_long(v) ==
    CASE v.type = "Long" -> Ok(LongV(v.l))
      [] OTHER -> Thrown(TypeError)

to_function(v) ==
    CASE v.type = "Function" -> Ok(v)
      [] OTHER -> Thrown(TypeError)

\* bool < bool of C++: false < true
BoolLess(a, b) == ~a /\ b

LessThan(lhs, rhs) ==
    CASE lhs.type = "Nil" -> Ok(BoolV(FALSE))
      [] lhs.type = "Bool" ->
            IF to_bool(rhs).ok
            THEN Ok(BoolV(BoolLess(to_bool(lhs).val.b, to_bool(rhs).val.b)))
            ELSE Thrown(to_bool(rhs).err)
      [] lhs.type = "Long" ->
            IF to_long(rhs).ok
            THEN Ok(BoolV(to_long(lhs).val.l < to_long(rhs).val.l))
            ELSE Thrown(to_long(rhs).err)
      [] OTHER -> Thrown(InternalError)

str(v) ==
    CASE v.type = "Nil" -> "nil"
      [] v.type = "Bool" -> (IF v.b THEN "true" ELSE "false")
      [] v.type = "Long" -> ToString(v.l)
      [] OTHER -> "[function]"

(***************************************************************************)
(* Environment                                                             *)
(***************************************************************************)
NoValues == [s \in {} |-> Nil]
Environment(outer) == [outer |-> outer, values |-> NoValues]

\* a lookup that prefers the outermost binding
RECURSIVE get_value_OuterFirst(_, _, _)
get_value_OuterFirst(E, e, s) ==
    LET up == IF E[e].outer # 0 THEN get_value_OuterFirst(E, E[e].outer, s)
              ELSE Thrown(UndefinedVariable(s))
    IN IF up.ok THEN up
       ELSE IF s \in DOMAIN E[e].values THEN Ok(E[e].values[s])
       ELSE up

RECURSIVE get_value(_, _, _)
get_value(E, e, s) ==
    IF s \in DOMAIN E[e].values THEN Ok(E[e].values[s])
    ELSE IF E[e].outer # 0 THEN get_value(E, E[e].outer, s)
    ELSE Thrown(UndefinedVariable(s))

\* map::emplace: inserts only when the key is absent
set_value(env, s, val) ==
    IF s \in DOMAIN env.values THEN env
    ELSE [env EXCEPT !.values = [k \in DOMAIN env.values \cup {s} |->
                                   IF k = s THEN val ELSE env.values[k]]]

make_with_builtins == set_value(Environment(0), "puts", PutsV)
\* the environment main() makes is the first of the run
RootEnv == 1

(***************************************************************************)
(* Programs: the ASTs the grammar of parse() produces                      *)
(***************************************************************************)
Statements(ss) == Node("STATEMENTS", ss)
Definition(name, param, body) == Node("DEFINITION", <<Ident(name), Ident(param), body>>)
Ternary(c, t, f) == Node("TERNARY", <<c, t, f>>)
Condition(l, r) == Node("CONDITION", <<l, Lt, r>>)
Infix(xs) == Node("INFIX", xs)
Call(callee, arg) == Node("CALL", <<callee, arg>>)
For(ident, from, to, body) == Node("FOR", <<Ident(ident), Num(from), Num(to), body>>)
Puts(arg) == Call(Ident("puts"), arg)

\* def fib(n) n < 2 ? n : fib(n - 1) + fib(n - 2)
FibDef ==
    Definition("fib", "n",
        Ternary(Condition(Ident("n"), Num(2)),
                Ident("n"),
                Infix(<<Call(Ident("fib"), Infix(<<Ident("n"), Op("-"), Num(1)>>)),
                        Op("+"),
                        Call(Ident("fib"), Infix(<<Ident("n"), Op("-"), Num(2)>>))>>)))
FibProg(k) == Statements(<<FibDef, Call(Ident("fib"), Num(k))>>)
FibProgs == {FibProg(k) : k \in 0..MaxFibArg}


\* the Number literals the other programs are built from
Lits == {0, 1, 2, MaxInt - 1, MaxInt}

\* def f(a) x: a top-level function with the free name x, called
\*   from a for body whose loop variable is x, from a function whose
\*   parameter is x, and from the top level
FreeX == Definition("f", "a", Ident("x"))
ScopeFor(a, b) == Statements(<<FreeX, For("x", a, b, Puts(Call(Ident("f"), Num(0))))>>)
ScopeParam(a) ==
    Statements(<<FreeX, Definition("g", "x", Call(Ident("f"), Num(0))),
                 Puts(Call(Ident("g"), Num(a)))>>)
ScopeTop == Statements(<<FreeX, Puts(Call(Ident("f"), Num(0)))>>)
ScopeProgs ==
    {ScopeFor(a, b) : a \in {1, 2}, b \in {2, 3}} \cup {ScopeParam(a) : a \in Lits}
    \cup {ScopeTop}

\* c ? puts(1) : puts(2), with c a comparison, a number or a function
TernaryPuts(c) == Ternary(c, Puts(Num(1)), Puts(Num(2)))
TernaryProgs ==
    {TernaryPuts(Condition(Num(a), Num(b))) : a \in Lits, b \in Lits}
    \cup {TernaryPuts(Num(a)) : a \in Lits}
    \cup {TernaryPuts(Ident("puts"))}
    \cup {Statements(<<TernaryPuts(Num(a)), TernaryPuts(Num(b))>>) : a \in {0, 1}, b \in {0, 1}}

\* for i from a to b puts(i)
ForPuts(a, b) == For("i", a, b, Puts(Ident("i")))
ForProgs == {ForPuts(a, b) : a \in Lits, b \in {0, 1, 2, MaxInt}}

\* a o1 b o2 c
Infix3(a, o1, b, o2, c) == Infix(<<Num(a), Op(o1), Num(b), Op(o2), Num(c)>>)
InfixLits == {0, 1, MaxInt - 1, MaxInt}
InfixProgs ==
    {Infix3(a, o1, b, o2, c) :
        a \in InfixLits, o1 \in {"+", "-"}, b \in InfixLits, o2 \in {"+", "-"}, c \in InfixLits}
    \cup {Infix(<<Ident("u"), Op("+"), Ident("v")>>),
          Infix(<<Num(1), Op("-"), Ident("v"), Op("+"), Ident("w")>>),
          Puts(Infix(<<Num(2), Op("+"), Num(1)>>))}

\* names: never defined, shadowed by a nearer frame, and bound further out
LookupProgs ==
    {Ident("zz"),
     Call(Ident("nofn"), Num(1)),
     Puts(Ident("zz")),
     Statements(<<Definition("f", "x", For("x", 5, 5, Puts(Ident("x")))),
                  Call(Ident("f"), Num(1))>>),
     For("i", 1, 2, For("i", 7, 7, Puts(Ident("i")))),
     For("puts", 1, 1, Puts(Num(3))),
     Statements(<<Definition("f", "x", Puts(Ident("f"))), Call(Ident("f"), Num(1)),
                  Puts(Ident("x"))>>)}

\* a name defined twice in the root environment
Redefine(a, b) ==
    Statements(<<Definition("f", "a", Num(a)), Definition("f", "b", Num(b)),
                 Puts(Call(Ident("f"), Num(0)))>>)
RedefinePuts(a) == Statements(<<Definition("puts", "x", Num(a)), Puts(Num(1))>>)
RedefProgs ==
    {Redefine(a, b) : a \in {1, 2}, b \in {1, 2}} \cup {RedefinePuts(a) : a \in {5}}

\* puts(l < r), for operands of every case of Value
NilExpr == For("i", 1, 0, Num(0))
BoolExpr(b) == IF b THEN Condition(Num(0), Num(1)) ELSE Condition(Num(1), Num(0))
OperandExprs ==
    {NilExpr, BoolExpr(TRUE), BoolExpr(FALSE), Ident("puts")} \cup {Num(a) : a \in {0, 1, 2}}
LessProg(l, r) == Puts(Condition(l, r))
LessProgs == {LessProg(l, r) : l \in OperandExprs, r \in OperandExprs}

\* errors raised below Statements, For, Call, Infix, Ternary and Condition
Faulty(bad) ==
    Definition("h", "a",
        Infix(<<Ternary(Condition(Ident("a"), Num(2)), Ident("a"), bad), Op("+"), Num(1)>>))
ErrorProg(bad) ==
    Statements(<<Faulty(bad),
                 Puts(Num(1)),
                 For("i", 1, 3, Puts(Call(Ident("h"), Ident("i")))),
                 Puts(Num(9)),
                 Definition("late", "a", Num(0))>>)
ErrorProgs ==
    {ErrorProg(bad) : bad \in {Ident("zz"), Ident("puts"), Condition(Ident("a"), Ident("puts")),
                               Condition(Ident("puts"), Ident("a")), Num(7)}}

\* calls whose callee is not an identifier bound to a function
CalleeNumber == Call(Num(3), Puts(Num(1)))
CalleeInteger ==
    Statements(<<Definition("f", "n", Call(Ident("n"), Puts(Num(1)))), Call(Ident("f"), Num(5))>>)
CalleeTernary(c) == Call(Ternary(Num(c), Ident("puts"), Ident("puts")), Num(7))
CallProgs == {CalleeNumber, CalleeInteger, Puts(Num(4))} \cup {CalleeTernary(c) : c \in {0, 1}}

Programs ==
    FibProgs \cup ScopeProgs \cup TernaryProgs \cup ForProgs \cup InfixProgs \cup LookupProgs
    \cup RedefProgs \cup LessProgs \cup ErrorProgs \cup CallProgs \cup {Statements(<<>>)}

NoAst == Node("", <<>>)
Inputs ==
    {[argc |-> 2, readable |-> TRUE, parses |-> TRUE, ast |-> a] : a \in Programs}
    \cup {[argc |-> 1, readable |-> TRUE, parses |-> TRUE, ast |-> NoAst],
          [argc |-> 2, readable |-> FALSE, parses |-> TRUE, ast |-> NoAst],
          [argc |-> 2, readable |-> TRUE, parses |-> FALSE, ast |-> NoAst]}

(***************************************************************************)
(* State                                                                   *)
(***************************************************************************)
VARIABLES
    input,      \* argv, the file and what parse() makes of it
    pc,         \* where main() is
    exitCode,   \* what main() returned
    envs,       \* the Environment objects made so far
    ctrl,       \* what the evaluator is doing
    stack,      \* the suspended activations of eval(), innermost last
    out,        \* the lines written to cout
    errout,     \* the lines written to cerr
    trace,      \* the nodes eval() was entered for, in order
    raised      \* an exception has been thrown

vars == <<input, pc, exitCode, envs, ctrl, stack, out, errout, trace, raised>>

Idle == [mode |-> "idle", node |-> NoPath, env |-> 0, val |-> Nil, err |-> NoErr]
EvalC(p, e) == [Idle EXCEPT !.mode = "eval", !.node = p, !.env = e]
RetC(v) == [Idle EXCEPT !.mode = "ret", !.val = v]
ThrowC(e) == [Idle EXCEPT !.mode = "throw", !.err = e]

Frame(kind, p, e) == [kind |-> kind, node |-> p, env |-> e, idx |-> 0, l |-> 0, to |-> 0, val |-> Nil]

Top == stack[Len(stack)]
Pop == SubSeq(stack, 1, Len(stack) - 1)
Push(f) == Append(stack, f)
Replace(f) == Append(Pop, f)
Child(p, i) == p \o <<i>>

Init ==
    /\ input \in Inputs
    /\ pc = "main"
    /\ exitCode = 0
    /\ envs = <<>>
    /\ ctrl = Idle
    /\ stack = <<>>
    /\ out = <<>>
    /\ errout = <<>>
    /\ trace = <<>>
    /\ raised = FALSE

(***************************************************************************)
(* main()                                                                  *)
(***************************************************************************)
ExitUsage == -1
ExitOpen == -2
ExitParse == -3
ExitError == -4
ExitOk == 0

Exit(code) == pc' = "exited" /\ exitCode' = code

MainArgs ==
    /\ pc = "main"
    /\ IF input.argc < 2
       THEN Exit(ExitUsage) /\ errout' = Append(errout, "usage: fib [source file path]")
       ELSE pc' = "open" /\ UNCHANGED <<exitCode, errout>>
    /\ UNCHANGED <<input, envs, ctrl, stack, out, trace, raised>>

MainOpen ==
    /\ pc = "open"
    /\ IF ~input.readable
       THEN Exit(ExitOpen) /\ errout' = Append(errout, "can't open the source file.")
       ELSE pc' = "parse" /\ UNCHANGED <<exitCode, errout>>
    /\ UNCHANGED <<input, envs, ctrl, stack, out, trace, raised>>

\* pg.log writes the parser's diagnostic, "ln:col: msg", to cerr
MainParse ==
    /\ pc = "parse"
    /\ IF ~input.parses
       THEN Exit(ExitParse) /\ errout' = Append(errout, "ln:col: msg")
       ELSE pc' = "parsed" /\ UNCHANGED <<exitCode, errout>>
    /\ UNCHANGED <<input, envs, ctrl, stack, out, trace, raised>>

MainEval ==
    /\ pc = "parsed"
    /\ pc' = "running"
    /\ envs' = <<make_with_builtins>>
    /\ ctrl' = EvalC(<<>>, RootEnv)
    /\ UNCHANGED <<input, exitCode, stack, out, errout, trace, raised>>

MainReturn ==
    /\ pc = "running" /\ ctrl.mode = "ret" /\ stack = <<>>
    /\ Exit(ExitOk)
    /\ UNCHANGED <<input, envs, ctrl, stack, out, errout, trace, raised>>

\* catch (const exception& e)
MainCatches(e) == e.class \in {"runtime_error", "logic_error"}

MainCatch ==
    /\ pc = "running" /\ ctrl.mode = "throw" /\ stack = <<>>
    /\ IF MainCatches(ctrl.err)
       THEN Exit(ExitError) /\ errout' = Append(errout, ctrl.err.what)
       ELSE pc' = "aborted" /\ UNCHANGED <<exitCode, errout>>
    /\ UNCHANGED <<input, envs, ctrl, stack, out, trace, raised>>

(***************************************************************************)
(* eval()                                                                  *)
(***************************************************************************)
Cur == NodeAt(input.ast, ctrl.node)
TopNode == NodeAt(input.ast, Top.node)

Evaluating(tag) ==
    /\ pc = "running" /\ ctrl.mode = "eval"
    /\ Len(out) < MaxLines
    /\ Cur.tag = tag
    /\ trace' = Append(trace, ctrl.node)

Resuming(kind) ==
    /\ pc = "running" /\ ctrl.mode = "ret"
    /\ stack # <<>>
    /\ Top.kind = kind
    /\ trace' = trace

\* an operation's outcome becomes the activation's: its value, or a throw
Deliver(r) ==
    /\ ctrl' = IF r.ok THEN RetC(r.val) ELSE ThrowC(r.err)
    /\ raised' = (raised \/ ~r.ok)

Throw(e) == ctrl' = ThrowC(e) /\ raised' = TRUE

EvalStatements ==
    /\ Evaluating("STATEMENTS")
    /\ IF Cur.nodes = <<>>
       THEN ctrl' = RetC(Nil) /\ stack' = stack
       ELSE /\ ctrl' = EvalC(Child(ctrl.node, 1), ctrl.env)
            /\ stack' = IF Len(Cur.nodes) = 1 THEN stack
                        ELSE Push([Frame("STATEMENTS", ctrl.node, ctrl.env) EXCEPT !.idx = 1])
    /\ UNCHANGED <<input, pc, exitCode, envs, out, errout, raised>>

StatementsNext ==
    /\ Resuming("STATEMENTS")
    /\ LET k == Top.idx + 1 IN
        /\ ctrl' = EvalC(Child(Top.node, k), Top.env)
        /\ stack' = IF k = Len(TopNode.nodes) THEN Pop
                    ELSE Replace([Top EXCEPT !.idx = k])
    /\ UNCHANGED <<input, pc, exitCode, envs, out, errout, raised>>

EvalDefinition ==
    /\ Evaluating("DEFINITION")
    /\ LET name == Cur.nodes[1].token
           param == Cur.nodes[2].token
           body == Child(ctrl.node, 3)
       IN envs' = [envs EXCEPT ![ctrl.env] = set_value(@, name, FunctionV(param, body))]
    /\ ctrl' = RetC(Nil)
    /\ UNCHANGED <<input, pc, exitCode, stack, out, errout, raised>>

\* the branches exchanged
TernaryIdx_Swapped(cond) == IF cond THEN 3 ELSE 2

\* auto idx = cond ? 1 : 2 (children are numbered from 1 here)
TernaryIdx(cond) == IF cond THEN 2 ELSE 3

EvalTernary ==
    /\ Evaluating("TERNARY")
    /\ stack' = Push(Frame("TERNARY", ctrl.node, ctrl.env))
    /\ ctrl' = EvalC(Child(ctrl.node, 1), ctrl.env)
    /\ UNCHANGED <<input, pc, exitCode, envs, out, errout, raised>>

TernaryBranch ==
    /\ Resuming("TERNARY")
    /\ LET cond == to_bool(ctrl.val) IN
        IF cond.ok
        THEN /\ ctrl' = EvalC(Child(Top.node, TernaryIdx(cond.val.b)), Top.env)
             /\ stack' = Pop
             /\ raised' = raised
        ELSE Throw(cond.err) /\ stack' = stack
    /\ UNCHANGED <<input, pc, exitCode, envs, out, errout>>

EvalCondition ==
    /\ Evaluating("CONDITION")
    /\ stack' = Push(Frame("CONDITION_LHS", ctrl.node, ctrl.env))
    /\ ctrl' = EvalC(Child(ctrl.node, 1), ctrl.env)
    /\ UNCHANGED <<input, pc, exitCode, envs, out, errout, raised>>

ConditionRhs ==
    /\ Resuming("CONDITION_LHS")
    /\ stack' = Replace([Top EXCEPT !.kind = "CONDITION_RHS", !.val = ctrl.val])
    /\ ctrl' = EvalC(Child(Top.node, 3), Top.env)
    /\ UNCHANGED <<input, pc, exitCode, envs, out, errout, raised>>

ConditionCompare ==
    /\ Resuming("CONDITION_RHS")
    /\ LET ret == LessThan(Top.val, ctrl.val) IN
        /\ Deliver(ret)
        /\ stack' = IF ret.ok THEN Pop ELSE stack
    /\ UNCHANGED <<input, pc, exitCode, envs, out, errout>>

\* signed overflow of `long` is undefined: the build wraps or traps
Arith(x) ==
    IF InRange(x) THEN {[trap |-> FALSE, l |-> x]}
    ELSE {[trap |-> FALSE, l |-> Wrap(x)], [trap |-> TRUE, l |-> 0]}

InfixApply(o, l, r) ==
    IF o = "+" THEN Arith(l + r)
    ELSE IF o = "-" THEN Arith(l - r)
    ELSE {[trap |-> FALSE, l |-> l]}

EvalInfix ==
    /\ Evaluating("INFIX")
    /\ stack' = Push([Frame("INFIX_FIRST", ctrl.node, ctrl.env) EXCEPT !.idx = 1])
    /\ ctrl' = EvalC(Child(ctrl.node, 1), ctrl.env)
    /\ UNCHANGED <<input, pc, exitCode, envs, out, errout, raised>>

\* the head of the loop over the operators, with the accumulator l and the
\* operand at child idx just folded
InfixLoop(l, idx) ==
    IF idx + 1 <= Len(TopNode.nodes)
    THEN /\ stack' = Replace([Top EXCEPT !.kind = "INFIX_FOLD", !.idx = idx + 2, !.l = l])
         /\ ctrl' = EvalC(Child(Top.node, idx + 2), Top.env)
    ELSE /\ stack' = Pop
         /\ ctrl' = RetC(LongV(l))

InfixFirst ==
    /\ Resuming("INFIX_FIRST")
    /\ LET l == to_long(ctrl.val) IN
        IF l.ok
        THEN InfixLoop(l.val.l, 1) /\ raised' = raised
        ELSE Throw(l.err) /\ stack' = stack
    /\ UNCHANGED <<input, pc, exitCode, envs, out, errout>>

InfixFold ==
    /\ Resuming("INFIX_FOLD")
    /\ LET r == to_long(ctrl.val)
           o == TopNode.nodes[Top.idx - 1].token
       IN IF r.ok
          THEN \E res \in InfixApply(o, Top.l, r.val.l) :
                  IF res.trap
                  THEN pc' = "aborted" /\ UNCHANGED <<ctrl, stack, raised>>
                  ELSE InfixLoop(res.l, Top.idx) /\ UNCHANGED <<pc, raised>>
          ELSE Throw(r.err) /\ UNCHANGED <<pc, stack>>
    /\ UNCHANGED <<input, exitCode, envs, out, errout>>

\* a call frame without a parent
CallOuter_Detached(callerEnv, fn) == 0

\* the parent of the frame a call's body runs in
CallOuter(callerEnv, fn) == callerEnv

EvalCall ==
    /\ Evaluating("CALL")
    /\ LET name == Cur.nodes[1].token
           found == get_value(envs, ctrl.env, name)
           fn == IF found.ok THEN to_function(found.val) ELSE found
       IN IF fn.ok
          THEN /\ stack' = Push([Frame("CALL_ARG", ctrl.node, ctrl.env) EXCEPT !.val = fn.val])
               /\ ctrl' = EvalC(Child(ctrl.node, 2), ctrl.env)
               /\ raised' = raised
          ELSE Throw(fn.err) /\ stack' = stack
    /\ UNCHANGED <<input, pc, exitCode, envs, out, errout>>

\* callEnv = make_shared<Environment>(env); callEnv->set_value(fn.param, val)
CallEnv(fn, callerEnv, val) ==
    set_value(Environment(CallOuter(callerEnv, fn)), fn.param, val)

CallUser ==
    /\ Resuming("CALL_ARG")
    /\ ~Top.val.builtin
    /\ envs' = Append(envs, CallEnv(Top.val, Top.env, ctrl.val))
    /\ stack' = Replace([Top EXCEPT !.kind = "CALL_BODY", !.idx = Len(envs) + 1])
    /\ ctrl' = EvalC(Top.val.body, Len(envs) + 1)
    /\ UNCHANGED <<input, pc, exitCode, out, errout, raised>>

CallPuts ==
    /\ Resuming("CALL_ARG")
    /\ Top.val.builtin
    /\ envs' = Append(envs, CallEnv(Top.val, Top.env, ctrl.val))
    /\ LET arg == get_value(envs', Len(envs) + 1, "arg") IN
        IF arg.ok
        THEN /\ out' = Append(out, str(arg.val))
             /\ ctrl' = RetC(Nil)
             /\ stack' = Pop
             /\ raised' = raised
        ELSE Throw(arg.err) /\ UNCHANGED <<out, stack>>
    /\ UNCHANGED <<input, pc, exitCode, errout>>

CallReturn ==
    /\ Resuming("CALL_BODY")
    /\ stack' = Pop
    /\ ctrl' = RetC(ctrl.val)
    /\ UNCHANGED <<input, pc, exitCode, envs, out, errout, raised>>

EvalFor ==
    /\ Evaluating("FOR")
    /\ stack' = Push(Frame("FOR_FROM", ctrl.node, ctrl.env))
    /\ ctrl' = EvalC(Child(ctrl.node, 2), ctrl.env)
    /\ UNCHANGED <<input, pc, exitCode, envs, out, errout, raised>>

ForFrom ==
    /\ Resuming("FOR_FROM")
    /\ LET from == to_long(ctrl.val) IN
        IF from.ok
        THEN /\ stack' = Replace([Top EXCEPT !.kind = "FOR_TO", !.l = from.val.l])
             /\ ctrl' = EvalC(Child(Top.node, 3), Top.env)
             /\ raised' = raised
        ELSE Throw(from.err) /\ stack' = stack
    /\ UNCHANGED <<input, pc, exitCode, envs, out, errout>>

\* the loop's test with the counter at i: another iteration, or the end
ForLoop(i, to) ==
    IF i <= to
    THEN /\ envs' = Append(envs, set_value(Environment(Top.env),
                                           TopNode.nodes[1].token, LongV(i)))
         /\ stack' = Replace([Top EXCEPT !.kind = "FOR_BODY", !.l = i, !.to = to])
         /\ ctrl' = EvalC(Child(Top.node, 4), Len(envs) + 1)
    ELSE /\ envs' = envs
         /\ stack' = Pop
         /\ ctrl' = RetC(Nil)

ForTo ==
    /\ Resuming("FOR_TO")
    /\ LET to == to_long(ctrl.val) IN
        IF to.ok
        THEN ForLoop(Top.l, to.val.l) /\ raised' = raised
        ELSE Throw(to.err) /\ UNCHANGED <<envs, stack>>
    /\ UNCHANGED <<input, pc, exitCode, out, errout>>

ForNext ==
    /\ Resuming("FOR_BODY")
    /\ \E res \in Arith(Top.l + 1) :
          IF res.trap
          THEN pc' = "aborted" /\ UNCHANGED <<envs, ctrl, stack>>
          ELSE ForLoop(res.l, Top.to) /\ pc' = pc
    /\ UNCHANGED <<input, exitCode, out, errout, raised>>

EvalIdentifier ==
    /\ Evaluating("Identifier")
    /\ Deliver(get_value(envs, ctrl.env, Cur.token))
    /\ UNCHANGED <<input, pc, exitCode, envs, stack, out, errout>>

RECURSIVE token_to_number(_)
token_to_number(ds) ==
    IF ds = <<>> THEN 0
    ELSE 10 * token_to_number(SubSeq(ds, 1, Len(ds) - 1)) + ds[Len(ds)]

EvalNumber ==
    /\ Evaluating("Number")
    /\ ctrl' = RetC(LongV(token_to_number(Cur.digits)))
    /\ UNCHANGED <<input, pc, exitCode, envs, stack, out, errout, raised>>

\* a handler that catches every exception
CallCatches_Any(e) == TRUE

\* catch (const Value& e) of CALL
CallCatches(e) == e.class = "Value"

Unwind ==
    /\ pc = "running" /\ ctrl.mode = "throw"
    /\ stack # <<>>
    /\ stack' = Pop
    /\ ctrl' = IF Top.kind = "CALL_BODY" /\ CallCatches(ctrl.err)
               THEN RetC(ctrl.err.val)
               ELSE ctrl
    /\ UNCHANGED <<input, pc, exitCode, envs, out, errout, trace, raised>>

Next ==
    \/ MainArgs \/ MainOpen \/ MainParse \/ MainEval \/ MainReturn \/ MainCatch
    \/ EvalStatements \/ StatementsNext
    \/ EvalDefinition
    \/ EvalTernary \/ TernaryBranch
    \/ EvalCondition \/ ConditionRhs \/ ConditionCompare
    \/ EvalInfix \/ InfixFirst \/ InfixFold
    \/ EvalCall \/ CallUser \/ CallPuts \/ CallReturn
    \/ EvalFor \/ ForFrom \/ ForTo \/ ForNext
    \/ EvalIdentifier \/ EvalNumber
    \/ Unwind

Spec == Init /\ [][Next]_vars

\* eval() and main() are one sequential program: it takes its next step
FairSpec == Spec /\ WF_vars(Next)

(***************************************************************************)
(* What the properties below read off a state                              *)
(***************************************************************************)
Ast == input.ast
\* main() has returned after evaluating the program
Exited == pc = "exited" /\ input.argc = 2 /\ input.readable /\ input.parses
Succeeded == Exited /\ exitCode = ExitOk
Failed(what) == Exited /\ exitCode = ExitError /\ errout = <<what>>
NumOf(node) == token_to_number(node.digits)
IsNum(node) == node.tag = "Number"
StartsWith(p, i) == p # <<>> /\ p[1] = i
IsPrefix(xs, ys) == Len(xs) <= Len(ys) /\ \A j \in 1..Len(xs) : xs[j] = ys[j]
\* the environments an activation of eval() holds, and the newest one
LiveEnvs ==
    ({ctrl.env} \cup {stack[i].env : i \in DOMAIN stack} \cup {Len(envs)}) \ {0}

RECURSIVE Chain(_, _)
Chain(E, e) == IF e = 0 THEN <<>> ELSE <<e>> \o Chain(E, E[e].outer)
\* the positions on e's chain, nearest first, of the frames binding s
Binders(E, e, s) == {j \in DOMAIN Chain(E, e) : s \in DOMAIN E[Chain(E, e)[j]].values}
Min(S) == CHOOSE x \in S : \A y \in S : x <= y
Max(S) == CHOOSE x \in S : \A y \in S : x >= y
Nearest(E, e, s) == E[Chain(E, e)[Min(Binders(E, e, s))]].values[s]

(***************************************************************************)
(* C1: a call's body runs in a new frame whose parent is the environment   *)
(* of the Definition (the root: a Definition is a top-level statement),    *)
(* not the caller's; so `def f(a) x` called from a for body whose variable *)
(* is x, or from a function whose parameter is x, fails with               *)
(* "undefined variable 'x'" and writes nothing.                            *)
(***************************************************************************)
\* the programs that call f (the for loops among them iterate)
IsScope ==
    /\ Ast.tag = "STATEMENTS" /\ Len(Ast.nodes) >= 2
    /\ Ast.nodes[1] = FreeX
    /\ Ast.nodes[2].tag = "FOR" => NumOf(Ast.nodes[2].nodes[2]) <= NumOf(Ast.nodes[2].nodes[3])
C1_LexicalScope ==
    /\ \A i \in DOMAIN stack :
          stack[i].kind = "CALL_BODY" => envs[stack[i].idx].outer = RootEnv
    /\ IsScope /\ Exited => Failed("undefined variable 'x'...") /\ out = <<>>

(***************************************************************************)
(* C2: after `def fib(n) n < 2 ? n : fib(n - 1) + fib(n - 2)`, the call    *)
(* fib(k) terminates for every k in 0..MaxFibArg, and its value is the     *)
(* Integer F(k) of the Fibonacci recurrence F(0) = 0, F(1) = 1.            *)
(***************************************************************************)
RECURSIVE FibRef(_)
FibRef(n) == IF n = 0 THEN 0 ELSE IF n = 1 THEN 1 ELSE FibRef(n - 1) + FibRef(n - 2)
IsFib ==
    /\ Ast.tag = "STATEMENTS" /\ Len(Ast.nodes) = 2
    /\ Ast.nodes[1] = FibDef
    /\ Ast.nodes[2].tag = "CALL" /\ Ast.nodes[2].nodes[1] = Ident("fib")
    /\ IsNum(Ast.nodes[2].nodes[2])
FibArg == NumOf(Ast.nodes[2].nodes[2])
C2_FibValue ==
    /\ IsFib ~> (pc = "exited")
    /\ [](IsFib /\ pc = "exited" =>
            /\ exitCode = ExitOk /\ ~raised
            /\ ctrl.mode = "ret" /\ ctrl.val = LongV(FibRef(FibArg)))
C2_Witness == IsFib /\ Succeeded /\ FibArg = MaxFibArg /\ ctrl.val = LongV(FibRef(MaxFibArg))

(***************************************************************************)
(* C3: a Ternary evaluates its condition, coerces it with to_bool, and     *)
(* then evaluates exactly one branch, the first iff the condition is true, *)
(* whose value is the Ternary's; in `c ? puts(1) : puts(2)` no node of the *)
(* untaken branch is evaluated and its line is not written.                *)
(***************************************************************************)
IsTernaryPuts ==
    /\ Ast.tag = "TERNARY"
    /\ Ast.nodes[2] = Puts(Num(1)) /\ Ast.nodes[3] = Puts(Num(2))
    /\ \/ IsNum(Ast.nodes[1])
       \/ Ast.nodes[1].tag = "CONDITION" /\ IsNum(Ast.nodes[1].nodes[1])
            /\ IsNum(Ast.nodes[1].nodes[3])
\* the truth of the condition of such a program
CondTruth ==
    IF IsNum(Ast.nodes[1]) THEN NumOf(Ast.nodes[1]) # 0
    ELSE NumOf(Ast.nodes[1].nodes[1]) < NumOf(Ast.nodes[1].nodes[3])
Taken == IF CondTruth THEN 2 ELSE 3
Untaken == IF CondTruth THEN 3 ELSE 2
Truth(v) == IF v.type = "Bool" THEN v.b ELSE v.l # 0
C3_TernaryBranch ==
    /\ [](IsTernaryPuts =>
            /\ \A j \in DOMAIN trace : ~StartsWith(trace[j], Untaken)
            /\ IsPrefix(out, <<ToString(Taken - 1)>>)
            /\ pc = "exited" => Succeeded /\ out = <<ToString(Taken - 1)>> /\ ctrl.val = Nil)
    /\ [][(/\ pc = "running" /\ ctrl.mode = "ret" /\ stack # <<>>
           /\ Top.kind = "TERNARY" /\ ctrl.val.type \in {"Bool", "Long"})
          => /\ ctrl' = EvalC(Child(Top.node, IF Truth(ctrl.val) THEN 2 ELSE 3), Top.env)
             /\ stack' = Pop /\ out' = out /\ envs' = envs]_vars
C3_Witness == IsTernaryPuts /\ ~CondTruth /\ Succeeded /\ out = <<"2">>

(***************************************************************************)
(* C4: `for i from a to b puts(i)` terminates with Nil, having evaluated   *)
(* the body once for each i with a <= i <= b, ascending, each time in a    *)
(* fresh child frame of the current environment binding i; also when b is  *)
(* the largest value of long.                                              *)
(***************************************************************************)
IsForPuts == Ast.tag = "FOR" /\ Ast.nodes[4] = Puts(Ident("i"))
ForFromLit == NumOf(Ast.nodes[2])
ForToLit == NumOf(Ast.nodes[3])
ForRange ==
    [j \in 1..(IF ForFromLit > ForToLit THEN 0 ELSE ForToLit - ForFromLit + 1) |->
        ForFromLit + j - 1]
BindsI(frame) == "i" \in DOMAIN frame.values
LoopFrames == SelectSeq(envs, BindsI)
Iterations == [j \in DOMAIN LoopFrames |-> LoopFrames[j].values["i"].l]
C4_ForIterates ==
    IsForPuts =>
        /\ pc # "aborted"
        /\ \A j \in DOMAIN LoopFrames : LoopFrames[j].outer = RootEnv
        /\ IsPrefix(Iterations, ForRange)
        /\ pc = "exited" =>
              /\ Succeeded /\ ctrl.val = Nil
              /\ Iterations = ForRange
              /\ out = [j \in DOMAIN ForRange |-> ToString(ForRange[j])]

(***************************************************************************)
(* C5: an Infix over Integer operands evaluates them left to right and     *)
(* yields the left fold of + and - in wrapping two's-complement            *)
(* arithmetic, also when a sum or difference is out of range.              *)
(***************************************************************************)
IsInfixLits ==
    /\ Ast.tag = "INFIX"
    /\ \A i \in DOMAIN Ast.nodes : i % 2 = 1 => IsNum(Ast.nodes[i])
RECURSIVE WrapFold(_, _)
WrapFold(nodes, k) ==
    IF k = 1 THEN NumOf(nodes[1])
    ELSE IF nodes[k - 1].token = "+" THEN Wrap(WrapFold(nodes, k - 2) + NumOf(nodes[k]))
    ELSE Wrap(WrapFold(nodes, k - 2) - NumOf(nodes[k]))
OperandOrder == [j \in 1..((Len(Ast.nodes) + 1) \div 2 + 1) |-> IF j = 1 THEN <<>> ELSE <<2 * j - 3>>]
C5_InfixWraps ==
    IsInfixLits =>
        /\ pc # "aborted"
        /\ IsPrefix(trace, OperandOrder)
        /\ pc = "exited" =>
              Succeeded /\ ctrl.val = LongV(WrapFold(Ast.nodes, Len(Ast.nodes)))

(***************************************************************************)
(* C6: get_value(name) returns the value bound in the nearest frame of the *)
(* chain that binds the name, and fails with "undefined variable" naming   *)
(* exactly that name iff no frame up to the root binds it; an Identifier   *)
(* evaluates to just that.                                                 *)
(***************************************************************************)
Names == {"puts", "arg", "fib", "n", "f", "g", "h", "a", "x", "i", "zz", "nofn", "late", ""}
LookupIs(E, e, s, r) ==
    IF Binders(E, e, s) = {}
    THEN ~r.ok /\ r.err.name = s /\ r.err.class = "runtime_error"
         /\ r.err.what = "undefined variable '" \o s \o "'..."
    ELSE r.ok /\ r.val = Nearest(E, e, s)
C6_Lookup ==
    /\ [](\A e \in LiveEnvs : \A s \in Names : LookupIs(envs, e, s, get_value(envs, e, s)))
    /\ [][(pc = "running" /\ ctrl.mode = "eval" /\ Cur.tag = "Identifier" /\ Len(out) < MaxLines)
          => LookupIs(envs, ctrl.env, Cur.token,
                      [ok |-> ctrl'.mode = "ret", val |-> ctrl'.val, err |-> ctrl'.err])]_vars
    /\ [](Ast = Ident("zz") /\ pc = "exited" => Failed("undefined variable 'zz'...") /\ out = <<>>)
C6_Witness ==
    /\ out = <<"5">>
    /\ \E e \in LiveEnvs :
          /\ Cardinality(Binders(envs, e, "x")) = 2
          /\ Nearest(envs, e, "x") = LongV(5)
          /\ envs[Chain(envs, e)[Max(Binders(envs, e, "x"))]].values["x"] = LongV(1)
          /\ Binders(envs, e, "zz") = {}

(***************************************************************************)
(* C7: defining a name already bound in the frame replaces the binding:    *)
(* after two Definitions of f (or a Definition of puts) in the root, a     *)
(* call of the name runs the later Definition's function.                  *)
(***************************************************************************)
IsRedefine ==
    /\ Ast.tag = "STATEMENTS" /\ Len(Ast.nodes) = 3
    /\ Ast.nodes[1].tag = "DEFINITION" /\ Ast.nodes[2].tag = "DEFINITION"
    /\ Ast.nodes[1].nodes[1] = Ast.nodes[2].nodes[1]
    /\ Ast.nodes[3] = Puts(Call(Ast.nodes[1].nodes[1], Num(0)))
    /\ IsNum(Ast.nodes[2].nodes[3])
IsRedefinePuts ==
    /\ Ast.tag = "STATEMENTS" /\ Len(Ast.nodes) = 2
    /\ Ast.nodes[1].tag = "DEFINITION" /\ Ast.nodes[1].nodes[1] = Ident("puts")
    /\ IsNum(Ast.nodes[1].nodes[3])
    /\ Ast.nodes[2].tag = "CALL" /\ Ast.nodes[2].nodes[1] = Ident("puts")
C7_Overwrite ==
    /\ IsRedefine /\ pc = "exited" =>
          Succeeded /\ out = <<ToString(NumOf(Ast.nodes[2].nodes[3]))>>
    /\ IsRedefinePuts /\ pc = "exited" =>
          Succeeded /\ out = <<>> /\ ctrl.val = LongV(NumOf(Ast.nodes[1].nodes[3]))

(***************************************************************************)
(* C8: l < r is the scalar ordering for two Bools or two Integers, false   *)
(* when l is Nil, and an error without a Bool result for every other       *)
(* pairing; an Integer is never coerced to a Bool in a comparison.         *)
(***************************************************************************)
IsLess ==
    /\ Ast.tag = "CALL" /\ Ast.nodes[1] = Ident("puts")
    /\ Ast.nodes[2].tag = "CONDITION"
\* the case of Value an operand expression of these programs evaluates to
CaseOf(expr) ==
    CASE expr.tag = "FOR" -> "Nil"
      [] expr.tag = "CONDITION" -> "Bool"
      [] expr.tag = "Number" -> "Long"
      [] OTHER -> "Function"
BoolOf(expr) == NumOf(expr.nodes[1]) < NumOf(expr.nodes[3])
LessLhs == Ast.nodes[2].nodes[1]
LessRhs == Ast.nodes[2].nodes[3]
C8_LessTyping ==
    IsLess /\ pc = "exited" =>
        CASE CaseOf(LessLhs) = "Nil" -> Succeeded /\ out = <<"false">>
          [] CaseOf(LessLhs) = "Bool" /\ CaseOf(LessRhs) = "Bool" ->
                Succeeded /\ out = <<str(BoolV(~BoolOf(LessLhs) /\ BoolOf(LessRhs)))>>
          [] CaseOf(LessLhs) = "Long" /\ CaseOf(LessRhs) = "Long" ->
                Succeeded /\ out = <<str(BoolV(NumOf(LessLhs) < NumOf(LessRhs)))>>
          [] OTHER -> Exited /\ exitCode = ExitError /\ raised /\ out = <<>>

(***************************************************************************)
(* C9: once an exception is thrown, at any depth, no node is evaluated, no *)
(* line is written and no binding is defined any more; no handler of a     *)
(* Call recovers; main() returns its runtime-error code, which no other    *)
(* outcome returns.                                                        *)
(***************************************************************************)
C9_ErrorPropagates ==
    /\ [][raised =>
            /\ trace' = trace /\ out' = out /\ envs' = envs
            /\ ctrl'.mode = "throw" /\ raised'
            /\ pc' \in {"running", "exited"}
            /\ Len(stack') <= Len(stack)]_vars
    /\ [](pc = "exited" =>
            /\ (exitCode = ExitError) = raised
            /\ (exitCode = ExitUsage) = (input.argc < 2)
            /\ (exitCode = ExitOpen) = (input.argc >= 2 /\ ~input.readable)
            /\ (exitCode = ExitParse) = (input.argc >= 2 /\ input.readable /\ ~input.parses)
            /\ (exitCode = ExitOk) = (Exited /\ ~raised)
            /\ raised => exitCode # 0 /\ errout = <<ctrl.err.what>>)
    /\ [](raised /\ pc = "running" => ENABLED (Unwind \/ MainCatch))
C9_Witness ==
    /\ raised /\ Exited /\ exitCode = ExitError
    /\ out = <<"1", "2">> /\ "late" \notin DOMAIN envs[RootEnv].values
    /\ errout = <<"undefined variable 'zz'...">>

(***************************************************************************)
(* C10: a Call evaluates its callee node as an expression and coerces the  *)
(* value with to_function before the argument is evaluated: a              *)
(* parenthesized Ternary yielding puts is invoked with the argument, and a *)
(* Number or an Integer-valued identifier as callee is a type error        *)
(* without the argument's side effects.                                    *)
(***************************************************************************)
IsCalleeTernary ==
    /\ Ast.tag = "CALL" /\ Ast.nodes[1].tag = "TERNARY"
    /\ IsNum(Ast.nodes[1].nodes[1])
    /\ Ast.nodes[1].nodes[2] = Ident("puts") /\ Ast.nodes[1].nodes[3] = Ident("puts")
C10_CalleeEvaluated ==
    /\ IsCalleeTernary /\ pc = "exited" =>
          Succeeded /\ out = <<ToString(NumOf(Ast.nodes[2]))>>
    /\ Ast \in {CalleeNumber, CalleeInteger} /\ pc = "exited" =>
          Failed("type error.") /\ out = <<>>

====
